---- MODULE Spec2Model ----
(***************************************************************************)
(* Model of llhls-rs (src/src/lib.rs): the LL-HLS media playlist reader    *)
(* read_playlist, the per-entity attribute-list parsers (FromStr) and the  *)
(* Display of a PartialSegment.                                            *)
(*                                                                         *)
(* Text.  A Rust string is modelled as a sequence of lexical tokens.  The  *)
(* delimiters the code looks at ('#', ':', ',', '=', white space) are      *)
(* tokens of their own; a run of other characters (a tag name, a number, a *)
(* quoted string, a file name) is one token.  split, split_once, trim and  *)
(* starts_with are computed on these sequences as the code computes them   *)
(* on characters.                                                          *)
(*                                                                         *)
(* Option<T> is <<>> (None) or <<v>> (Some(v)).  A derive_builder field is *)
(* an Option of the field's type: <<>> while unset.  Result<T, E> is a     *)
(* record with a field ok, and v (Ok) or e (Err).                          *)
(***************************************************************************)
EXTENDS Naturals, Sequences, FiniteSets, TLC

VARIABLES
    pc,               \* read_playlist: "header", "scan" or "done"
    line,             \* read_playlist: the line buffer `line`
    doc,              \* the lines the line source has delivered so far
    playlist,         \* builder.playlist (MediaPlaylistBuilder)
    rendition_reports,\* builder.rendition_reports
    media_segments,   \* builder.media_segments
    segment,          \* media_segment_builder.segment (MediaSegmentBuilder)
    parts,            \* media_segment_builder.parts
    result,           \* what read_playlist returned: <<>> while running
    source,           \* the line source: "open", "eof" or "failed"
    entity,           \* FromStr check: the entity whose from_str is applied
    attrs,            \* FromStr check: the comma separated elements of the input
    prefixed,         \* FromStr check: the input starts with "#<tag name>:"
    parsed,           \* FromStr check: <<>> or <<the Result of from_str>>
    text,             \* FromStr check: <<>> or <<the Display text of the value>>
    reparsed          \* FromStr check: <<>> or <<the Result of parsing text>>

scanVars == <<pc, line, doc, playlist, rendition_reports, media_segments,
              segment, parts, result, source>>
strVars == <<entity, attrs, prefixed, parsed, text, reparsed>>
vars == <<pc, line, doc, playlist, rendition_reports, media_segments,
          segment, parts, result, source, entity, attrs, prefixed, parsed, text,
          reparsed>>

---------------------------------------------------------------------------
(* Strings: str::trim, trim_end, split_once, split, on token sequences.    *)

IsWhite(t) == t \in {" ", "\t", "\n", "\r"}

RECURSIVE trim_start(_)
trim_start(s) ==
    IF s # <<>> /\ IsWhite(Head(s)) THEN trim_start(Tail(s)) ELSE s

RECURSIVE trim_end(_)
trim_end(s) ==
    IF s # <<>> /\ IsWhite(s[Len(s)])
    THEN trim_end(SubSeq(s, 1, Len(s) - 1))
    ELSE s

trim(s) == trim_end(trim_start(s))

\* The index of the first occurrence of the delimiter c in s, 0 if none.
Find(s, c) ==
    IF \E i \in 1..Len(s) : s[i] = c
    THEN CHOOSE i \in 1..Len(s) : s[i] = c /\ \A j \in 1..(i - 1) : s[j] # c
    ELSE 0

\* str::split_once: None, or Some((before, after)) of the first c.
split_once(s, c) ==
    LET i == Find(s, c)
    IN  IF i = 0 THEN <<>>
        ELSE << <<SubSeq(s, 1, i - 1), SubSeq(s, i + 1, Len(s))>> >>

\* str::split: the pieces between the occurrences of c (never empty).
RECURSIVE split(_, _)
split(s, c) ==
    LET i == Find(s, c)
    IN  IF i = 0 THEN <<s>>
        ELSE <<SubSeq(s, 1, i - 1)>> \o split(SubSeq(s, i + 1, Len(s)), c)

\* [String]::join
RECURSIVE join(_, _)
join(ss, c) ==
    IF ss = <<>> THEN <<>>
    ELSE IF Len(ss) = 1 THEN ss[1]
    ELSE ss[1] \o <<c>> \o join(Tail(ss), c)

Ok(v) == [ok |-> TRUE, v |-> v]
Err(e) == [ok |-> FALSE, e |-> e]

\* Result::map_err(|_| e)
map_err(r, e) == IF r.ok THEN r ELSE Err(e)

\* The ? operator: the rest of the function runs on the Ok value, an Err is
\* returned as it is.
and_then(r, Rest(_)) == IF r.ok THEN Rest(r.v) ELSE r

---------------------------------------------------------------------------
(* Primitive conversions.  An f32 is held in hundredths, a u32 as itself.  *)

\* f32::from_str on the numerals of the model's alphabet.
f32_from_str(s) ==
    IF Len(s) # 1 THEN Err("ParseFloatError")
    ELSE CASE s[1] = "0.33" -> Ok(33)
           [] s[1] = "0.5"  -> Ok(50)
           [] s[1] = "1.5"  -> Ok(150)
           [] s[1] = "4"    -> Ok(400)
           [] s[1] = "4.0"  -> Ok(400)
           [] s[1] = "6"    -> Ok(600)
           [] s[1] = "6.0"  -> Ok(600)
           [] s[1] = "0"    -> Ok(0)
           [] s[1] = "9"    -> Ok(900)
           [] OTHER         -> Err("ParseFloatError")

\* f32's Display (to_string): the shortest numeral, no ".0" on an integer.
f32_to_string(x) ==
    CASE x = 33  -> <<"0.33">>
      [] x = 50  -> <<"0.5">>
      [] x = 150 -> <<"1.5">>
      [] x = 400 -> <<"4">>
      [] x = 600 -> <<"6">>
      [] x = 0   -> <<"0">>
      [] x = 900 -> <<"9">>

\* u32::from_str: decimal digits only.
u32_from_str(s) ==
    IF Len(s) # 1 THEN Err("ParseIntError")
    ELSE CASE s[1] = "0" -> Ok(0)
           [] s[1] = "4" -> Ok(4)
           [] s[1] = "6" -> Ok(6)
           [] s[1] = "9" -> Ok(9)
           [] OTHER      -> Err("ParseIntError")

\* A boolean reader that takes every word other than YES as false.
YesNo_from_str_lenient(s) == Ok(s = <<"YES">>)

\* YesNo::from_str followed by From<YesNo> for bool.
YesNo_from_str(s) ==
    IF s = <<"YES">> THEN Ok(TRUE)
    ELSE IF s = <<"NO">> THEN Ok(FALSE)
    ELSE Err("ParseAttributeError")

---------------------------------------------------------------------------
(* The attribute names of each entity and their typed field writes.       *)

PartialSegmentBuilder_default ==
    [part_duration |-> <<>>, uri |-> <<>>, independent |-> <<>>]

PartialSegmentAttribute_from_str(s) ==
    CASE s = <<"DURATION">>    -> Ok("Duration")
      [] s = <<"URI">>         -> Ok("Uri")
      [] s = <<"INDEPENDENT">> -> Ok("Independent")
      [] OTHER                 -> Err("ParseAttributeError")

PartialSegmentAttribute_read(self, builder, attribute) ==
    CASE self = "Duration" ->
           and_then(map_err(f32_from_str(attribute), "ParseAttributeError"),
                    LAMBDA d : Ok([builder EXCEPT !.part_duration = <<d>>]))
      [] self = "Uri" -> Ok([builder EXCEPT !.uri = <<attribute>>])
      [] self = "Independent" ->
           and_then(map_err(YesNo_from_str(attribute), "ParseAttributeError"),
                    LAMBDA y : Ok([builder EXCEPT !.independent = << <<y>> >>]))

ServerControlBuilder_default ==
    [can_block_reload |-> <<>>, part_hold_back |-> <<>>, can_skip_until |-> <<>>]

ServerControlAttribute_from_str(s) ==
    CASE s = <<"CAN-BLOCK-RELOAD">> -> Ok("CanBlockReload")
      [] s = <<"PART-HOLD-BACK">>   -> Ok("PartHoldBack")
      [] s = <<"CAN-SKIP-UNTIL">>   -> Ok("CanSkipUntil")
      [] OTHER                      -> Err("ParseAttributeError")

ServerControlAttribute_read(self, builder, attribute) ==
    CASE self = "CanBlockReload" ->
           and_then(map_err(YesNo_from_str(attribute), "ParseAttributeError"),
                    LAMBDA y : Ok([builder EXCEPT !.can_block_reload = <<y>>]))
      [] self = "PartHoldBack" ->
           and_then(map_err(f32_from_str(attribute), "ParseAttributeError"),
                    LAMBDA x : Ok([builder EXCEPT !.part_hold_back = <<x>>]))
      [] self = "CanSkipUntil" ->
           and_then(map_err(f32_from_str(attribute), "ParseAttributeError"),
                    LAMBDA x : Ok([builder EXCEPT !.can_skip_until = <<x>>]))

PartInfBuilder_default == [part_target |-> <<>>]

PartInfAttribute_from_str(s) ==
    CASE s = <<"PART-TARGET">> -> Ok("PartTarget")
      [] OTHER                 -> Err("ParseAttributeError")

PartInfAttribute_read(self, builder, attribute) ==
    CASE self = "PartTarget" ->
           and_then(map_err(f32_from_str(attribute), "ParseAttributeError"),
                    LAMBDA x : Ok([builder EXCEPT !.part_target = <<x>>]))

SkipBuilder_default ==
    [skipped_segments |-> <<>>, recently_removed_dateranges |-> <<>>]

SkipAttribute_from_str(s) ==
    CASE s = <<"SKIPPED-SEGMENTS">>            -> Ok("SkippedSegments")
      [] s = <<"RECENTLY-REMOVED-DATERANGES">> -> Ok("RecentlyRemovedDateRanges")
      [] OTHER                                 -> Err("ParseAttributeError")

SkipAttribute_read(self, builder, attribute) ==
    CASE self = "SkippedSegments" ->
           and_then(map_err(u32_from_str(attribute), "ParseAttributeError"),
                    LAMBDA n : Ok([builder EXCEPT !.skipped_segments = <<n>>]))
      [] self = "RecentlyRemovedDateRanges" ->
           Ok([builder EXCEPT
                 !.recently_removed_dateranges = <<split(attribute, "\t")>>])

PreloadHintType_from_str(value) ==
    CASE value = <<"PART">> -> Ok("Part")
      [] value = <<"MAP">>  -> Ok("Map")
      [] OTHER              -> Err("ParseAttributeError")

PreloadHintBuilder_default ==
    [type |-> <<>>, uri |-> <<>>, byterange_start |-> <<>>,
     byterange_length |-> <<>>]

\* An attribute name lookup that takes every other name for a URI.
PreloadHintAttribute_from_str_catch_all(s) ==
    CASE s = <<"TYPE">> -> Ok("Type")
      [] OTHER          -> Ok("Uri")

PreloadHintAttribute_from_str(s) ==
    CASE s = <<"TYPE">> -> Ok("Type")
      [] s = <<"URI">>  -> Ok("Uri")
      [] OTHER          -> Err("ParseAttributeError")

PreloadHintAttribute_read(self, builder, attribute) ==
    CASE self = "Type" ->
           and_then(PreloadHintType_from_str(attribute),
                    LAMBDA ty : Ok([builder EXCEPT !.type = <<ty>>]))
      [] self = "Uri" -> Ok([builder EXCEPT !.uri = <<attribute>>])

RenditionReportBuilder_default ==
    [uri |-> <<>>, last_msn |-> <<>>, last_part |-> <<>>]

RenditionReportAttribute_from_str(s) ==
    CASE s = <<"URI">>       -> Ok("Uri")
      [] s = <<"LAST-MSN">>  -> Ok("LastMsn")
      [] s = <<"LAST-PART">> -> Ok("LastPart")
      [] OTHER               -> Err("ParseAttributeError")

RenditionReportAttribute_read(self, builder, attribute) ==
    CASE self = "Uri" -> Ok([builder EXCEPT !.uri = <<attribute>>])
      [] self = "LastMsn" ->
           and_then(map_err(u32_from_str(attribute), "ParseAttributeError"),
                    LAMBDA n : Ok([builder EXCEPT !.last_msn = <<n>>]))
      [] self = "LastPart" ->
           and_then(map_err(u32_from_str(attribute), "ParseAttributeError"),
                    LAMBDA n : Ok([builder EXCEPT !.last_part = <<n>>]))

---------------------------------------------------------------------------
(* read_attributes::<T, B>: the attribute list as a map, then one read per *)
(* entry.  T, the attribute type, is passed by name.                       *)

\* T::from_str
Attribute_from_str(T, s) ==
    CASE T = "PartialSegmentAttribute"  -> PartialSegmentAttribute_from_str(s)
      [] T = "ServerControlAttribute"   -> ServerControlAttribute_from_str(s)
      [] T = "PartInfAttribute"         -> PartInfAttribute_from_str(s)
      [] T = "SkipAttribute"            -> SkipAttribute_from_str(s)
      [] T = "PreloadHintAttribute"     -> PreloadHintAttribute_from_str(s)
      [] T = "RenditionReportAttribute" -> RenditionReportAttribute_from_str(s)

\* <T as Attribute<B>>::read
Attribute_read(T, self, builder, attribute) ==
    CASE T = "PartialSegmentAttribute" ->
           PartialSegmentAttribute_read(self, builder, attribute)
      [] T = "ServerControlAttribute" ->
           ServerControlAttribute_read(self, builder, attribute)
      [] T = "PartInfAttribute" ->
           PartInfAttribute_read(self, builder, attribute)
      [] T = "SkipAttribute" ->
           SkipAttribute_read(self, builder, attribute)
      [] T = "PreloadHintAttribute" ->
           PreloadHintAttribute_read(self, builder, attribute)
      [] T = "RenditionReportAttribute" ->
           RenditionReportAttribute_read(self, builder, attribute)

\* The elements of the list that hold a '=', as (name, value) pairs.
attribute_pairs(s) ==
    LET kv == SelectSeq(split(s, ","), LAMBDA x : Find(x, "=") # 0)
    IN  [i \in 1..Len(kv) |-> split_once(kv[i], "=")[1]]

\* A map in which the first pair with a name stays.
collect_map_first_wins(kv) ==
    [k \in {kv[i][1] : i \in 1..Len(kv)} |->
        kv[CHOOSE i \in 1..Len(kv) :
               kv[i][1] = k /\ \A j \in 1..(i - 1) : kv[j][1] # k][2]]

\* The HashMap collected from the pairs: a later pair with the same name
\* replaces an earlier one.
collect_map(kv) ==
    [k \in {kv[i][1] : i \in 1..Len(kv)} |->
        kv[CHOOSE i \in 1..Len(kv) :
               kv[i][1] = k /\ \A j \in (i + 1)..Len(kv) : kv[j][1] # k][2]]

attribute_map(s) == collect_map(attribute_pairs(s))

\* One entry of the loop over the map: the name is resolved, the value is
\* written.
read_entry(T, builder, k, v) ==
    and_then(map_err(Attribute_from_str(T, k), "ParseAttributeError"),
             LAMBDA attribute : Attribute_read(T, attribute, builder, v))

\* The loop over the map.  A HashMap iterates in an unspecified order; the
\* names are distinct and every error is the same ParseAttributeError, so
\* the outcome is the same for every order and one order is computed.
RECURSIVE read_entries(_, _, _, _)
read_entries(T, m, keys, builder) ==
    IF keys = {} THEN Ok(builder)
    ELSE and_then(read_entry(T, builder, CHOOSE x \in keys : TRUE,
                             m[CHOOSE x \in keys : TRUE]),
                  LAMBDA b : read_entries(T, m, keys \ {CHOOSE x \in keys : TRUE}, b))

read_map(T, m, builder) == read_entries(T, m, DOMAIN m, builder)

read_attributes(T, s, builder) == read_map(T, attribute_map(s), builder)

\* derive_builder's build(): Err while a field is unset.
AllSet(builder) == \A f \in DOMAIN builder : builder[f] # <<>>
Sealed(builder) == [f \in DOMAIN builder |-> builder[f][1]]
build(builder) ==
    IF AllSet(builder) THEN Ok(Sealed(builder)) ELSE Err("UninitializedField")

\* `if builder.f.is_none() { builder.f(None); }`
default_none(builder, f) ==
    IF builder[f] = <<>> THEN [builder EXCEPT ![f] = << <<>> >>] ELSE builder

---------------------------------------------------------------------------
(* The entities' FromStr, and the Display of a PartialSegment.             *)

PartialSegment_from_str(s) ==
    map_err(and_then(map_err(read_attributes("PartialSegmentAttribute", s,
                                             PartialSegmentBuilder_default),
                             "ParseTagError"),
                     LAMBDA b : build(default_none(b, "independent"))),
            "ParseTagError")

\* A from_str that fills the attributes the list lacks instead of failing.
ServerControl_from_str_lenient(s) ==
    map_err(and_then(map_err(read_attributes("ServerControlAttribute", s,
                                             ServerControlBuilder_default),
                             "ParseTagError"),
                     LAMBDA b : build(default_none(default_none(default_none(
                                    b, "can_block_reload"), "part_hold_back"),
                                    "can_skip_until"))),
            "ParseTagError")

ServerControl_from_str(s) ==
    map_err(and_then(map_err(read_attributes("ServerControlAttribute", s,
                                             ServerControlBuilder_default),
                             "ParseTagError"),
                     LAMBDA b : build(b)),
            "ParseTagError")

PartInf_from_str(s) ==
    map_err(and_then(map_err(read_attributes("PartInfAttribute", s,
                                             PartInfBuilder_default),
                             "ParseTagError"),
                     LAMBDA b : build(b)),
            "ParseTagError")

\* An unset recently_removed_dateranges becomes Vec::new().
Skip_from_str(s) ==
    map_err(and_then(map_err(read_attributes("SkipAttribute", s,
                                             SkipBuilder_default),
                             "ParseTagError"),
                     LAMBDA b : build(default_none(
                                    b, "recently_removed_dateranges"))),
            "ParseTagError")

PreloadHint_from_str(s) ==
    map_err(and_then(map_err(read_attributes("PreloadHintAttribute", s,
                                             PreloadHintBuilder_default),
                             "ParseTagError"),
                     LAMBDA b : build(default_none(
                                    default_none(b, "byterange_start"),
                                    "byterange_length"))),
            "ParseTagError")

RenditionReport_from_str(s) ==
    map_err(and_then(map_err(read_attributes("RenditionReportAttribute", s,
                                             RenditionReportBuilder_default),
                             "ParseTagError"),
                     LAMBDA b : build(b)),
            "ParseTagError")

\* A Display that writes an INDEPENDENT attribute for every part, an unset
\* one as FALSE.
PartialSegment_fmt_always_independent(self) ==
    <<"#", "EXT-X-PART", ":">> \o
    join(<< <<"DURATION", "=">> \o f32_to_string(self.part_duration),
            <<"URI", "=">> \o self.uri,
            <<"INDEPENDENT", "=",
              IF self.independent = <<TRUE>> THEN "YES" ELSE "FALSE">> >>,
         ",")

\* impl fmt::Display for PartialSegment
PartialSegment_fmt(self) ==
    <<"#", "EXT-X-PART", ":">> \o
    join(<< <<"DURATION", "=">> \o f32_to_string(self.part_duration),
            <<"URI", "=">> \o self.uri >>
         \o (IF self.independent # <<>>
             THEN << <<"INDEPENDENT", "=",
                       IF self.independent[1] THEN "YES" ELSE "FALSE">> >>
             ELSE <<>>),
         ",")

---------------------------------------------------------------------------
(* External collaborators: the URI validator and the date-time parser.     *)

\* fluent_uri's Uri::parse_from: a URI reference holds no white space and no
\* double quote.
Uri_parse_from(s) ==
    IF \E i \in 1..Len(s) : IsWhite(s[i]) \/ s[i] = "\""
    THEN Err("UriParseError")
    ELSE Ok(s)

\* chrono's DateTime::<Utc>::from_str: an RFC 3339 date and time.
DateTime_from_str(s) ==
    IF s = <<"2024-05-01T10", ":", "00", ":", "00Z">> THEN Ok(s)
    ELSE Err("ParseError")

---------------------------------------------------------------------------
(* The tag registry and the tags' reads.  The builders of read_playlist    *)
(* are held in one record b = [playlist, rendition_reports, media_segments,*)
(* segment, parts]: the first three are the WrappedMediaPlaylistBuilder,   *)
(* the last two the WrappedMediaSegmentBuilder.                            *)

MediaPlaylistTag_from_str(value) ==
    CASE value = <<"EXT-X-TARGETDURATION">>   -> Ok("TargetDuration")
      [] value = <<"EXT-X-VERSION">>          -> Ok("Version")
      [] value = <<"EXT-X-PART-INF">>         -> Ok("PartInf")
      [] value = <<"EXT-X-MEDIA-SEQUENCE">>   -> Ok("MediaSequence")
      [] value = <<"EXT-X-SKIP">>             -> Ok("Skip")
      [] value = <<"EXT-X-PRELOAD-HINT">>     -> Ok("PreloadHint")
      [] value = <<"EXT-X-RENDITION-REPORT">> -> Ok("RenditionReport")
      [] value = <<"EXT-X-SERVER-CONTROL">>   -> Ok("ServerControl")
      [] OTHER                                -> Err("ParseTagError")

\* Never an Err: every other string is the synthetic tag Uri.
MediaSegmentTag_from_str(s) ==
    CASE s = <<"EXTINF">>                  -> Ok("Inf")
      [] s = <<"EXT-X-PART">>              -> Ok("Part")
      [] s = <<"EXT-X-PROGRAM-DATE-TIME">> -> Ok("ProgramDateTime")
      [] OTHER                             -> Ok("Uri")

MediaSegmentBuilder_default ==
    [duration |-> <<>>, uri |-> <<>>, partial_segments |-> <<>>,
     program_date_time |-> <<>>]

MediaPlaylistBuilder_default ==
    [target_duration |-> <<>>, version |-> <<>>, part_inf |-> <<>>,
     media_sequence_number |-> <<>>, media_segments |-> <<>>, skip |-> <<>>,
     preload_hint |-> <<>>, rendition_reports |-> <<>>,
     server_control |-> <<>>]

\* An EXTINF reader for which the comma is optional.
Inf_duration_comma_optional(attributes) ==
    IF split_once(attributes, ",") = <<>>
    THEN map_err(f32_from_str(attributes), "ParseTagError")
    ELSE map_err(f32_from_str(split_once(attributes, ",")[1][1]),
                 "ParseTagError")

\* An EXTINF reader that takes what follows the first comma.
Inf_duration_after_comma(attributes) ==
    IF split_once(attributes, ",") = <<>> THEN Err("ParseTagError")
    ELSE map_err(f32_from_str(split_once(attributes, ",")[1][2]),
                 "ParseTagError")

\* The duration of an EXTINF value: what precedes its first comma.
Inf_duration(attributes) ==
    IF split_once(attributes, ",") = <<>> THEN Err("ParseTagError")
    ELSE map_err(f32_from_str(split_once(attributes, ",")[1][1]),
                 "ParseTagError")

\* A segment tag reader whose EXT-X-PART puts the part at the front of the
\* list.
MediaSegmentTag_read_part_first(self, b, attributes) ==
    CASE self = "Inf" ->
           and_then(Inf_duration(attributes),
                    LAMBDA d : Ok([b EXCEPT !.segment.duration = <<d>>]))
      [] self = "Part" ->
           and_then(map_err(PartialSegment_from_str(attributes), "ParseTagError"),
                    LAMBDA p : Ok([b EXCEPT !.parts = <<p>> \o @]))
      [] self = "Uri" ->
           and_then(map_err(Uri_parse_from(attributes), "ParseTagError"),
                    LAMBDA u : Ok([b EXCEPT !.segment.uri = <<u>>]))
      [] self = "ProgramDateTime" ->
           and_then(map_err(DateTime_from_str(attributes), "ParseTagError"),
                    LAMBDA d : Ok([b EXCEPT
                                     !.segment.program_date_time = << <<d>> >>]))

\* A segment tag reader whose EXT-X-PART keeps only the part just read.
MediaSegmentTag_read_last_part(self, b, attributes) ==
    CASE self = "Inf" ->
           and_then(Inf_duration(attributes),
                    LAMBDA d : Ok([b EXCEPT !.segment.duration = <<d>>]))
      [] self = "Part" ->
           and_then(map_err(PartialSegment_from_str(attributes), "ParseTagError"),
                    LAMBDA p : Ok([b EXCEPT !.parts = <<p>>]))
      [] self = "Uri" ->
           and_then(map_err(Uri_parse_from(attributes), "ParseTagError"),
                    LAMBDA u : Ok([b EXCEPT !.segment.uri = <<u>>]))
      [] self = "ProgramDateTime" ->
           and_then(map_err(DateTime_from_str(attributes), "ParseTagError"),
                    LAMBDA d : Ok([b EXCEPT
                                     !.segment.program_date_time = << <<d>> >>]))

\* impl Tag<WrappedMediaSegmentBuilder> for MediaSegmentTag
MediaSegmentTag_read(self, b, attributes) ==
    CASE self = "Inf" ->
           and_then(Inf_duration(attributes),
                    LAMBDA d : Ok([b EXCEPT !.segment.duration = <<d>>]))
      [] self = "Part" ->
           and_then(map_err(PartialSegment_from_str(attributes), "ParseTagError"),
                    LAMBDA p : Ok([b EXCEPT !.parts = Append(@, p)]))
      [] self = "Uri" ->
           and_then(map_err(Uri_parse_from(attributes), "ParseTagError"),
                    LAMBDA u : Ok([b EXCEPT !.segment.uri = <<u>>]))
      [] self = "ProgramDateTime" ->
           and_then(map_err(DateTime_from_str(attributes), "ParseTagError"),
                    LAMBDA d : Ok([b EXCEPT
                                     !.segment.program_date_time = << <<d>> >>]))

\* impl Tag<WrappedMediaPlaylistBuilder> for MediaPlaylistTag
MediaPlaylistTag_read(self, b, attributes) ==
    CASE self = "TargetDuration" ->
           and_then(map_err(u32_from_str(attributes), "ParseTagError"),
                    LAMBDA n : Ok([b EXCEPT !.playlist.target_duration = <<n>>]))
      [] self = "Version" ->
           and_then(map_err(u32_from_str(attributes), "ParseTagError"),
                    LAMBDA n : Ok([b EXCEPT !.playlist.version = <<n>>]))
      [] self = "PartInf" ->
           and_then(map_err(PartInf_from_str(attributes), "ParseTagError"),
                    LAMBDA x : Ok([b EXCEPT !.playlist.part_inf = <<x>>]))
      [] self = "MediaSequence" ->
           and_then(map_err(u32_from_str(attributes), "ParseTagError"),
                    LAMBDA n : Ok([b EXCEPT
                                     !.playlist.media_sequence_number = <<n>>]))
      [] self = "Skip" ->
           and_then(map_err(Skip_from_str(attributes), "ParseTagError"),
                    LAMBDA x : Ok([b EXCEPT !.playlist.skip = << <<x>> >>]))
      [] self = "PreloadHint" ->
           and_then(map_err(PreloadHint_from_str(attributes), "ParseTagError"),
                    LAMBDA x : Ok([b EXCEPT
                                     !.playlist.preload_hint = << <<x>> >>]))
      [] self = "RenditionReport" ->
           and_then(map_err(RenditionReport_from_str(attributes), "ParseTagError"),
                    LAMBDA x : Ok([b EXCEPT !.rendition_reports = Append(@, x)]))
      [] self = "ServerControl" ->
           and_then(map_err(ServerControl_from_str(attributes), "ParseTagError"),
                    LAMBDA x : Ok([b EXCEPT !.playlist.server_control = <<x>>]))

---------------------------------------------------------------------------
(* read_playlist: one iteration of the scanning loop, as a function of the *)
(* builders b and of the line just read.                                   *)

\* The tag names of the model's alphabet that begin with the letters EXT.
ExtNames ==
    {"EXTM3U", "EXTINF", "EXT-X-TARGETDURATION", "EXT-X-VERSION",
     "EXT-X-PART-INF", "EXT-X-MEDIA-SEQUENCE", "EXT-X-SKIP",
     "EXT-X-PRELOAD-HINT", "EXT-X-RENDITION-REPORT", "EXT-X-SERVER-CONTROL",
     "EXT-X-PART", "EXT-X-PROGRAM-DATE-TIME", "EXT-X-ENDLIST",
     "EXT-X-DISCONTINUITY", "EXT-X-FUTURE", "EXT-X-MAP"}

\* line.starts_with("#EXT-X") || line.starts_with("#EXT")
starts_with_EXT(l) == Len(l) >= 2 /\ l[1] = "#" /\ l[2] \in ExtNames

\* let is_uri = !line.starts_with('#') && !line.trim().is_empty();
is_uri(l) == ~(l # <<>> /\ l[1] = "#") /\ trim(l) # <<>>

\* Lines 728-736: the playlist tags are tried first, then the segment tags.
dispatch_tag_id(b, tag_id, attributes) ==
    IF MediaPlaylistTag_from_str(tag_id).ok
    THEN map_err(MediaPlaylistTag_read(MediaPlaylistTag_from_str(tag_id).v,
                                       b, attributes),
                 "BUILDER_ERROR")
    ELSE IF MediaSegmentTag_from_str(tag_id).ok
    THEN map_err(MediaSegmentTag_read(MediaSegmentTag_from_str(tag_id).v,
                                      b, attributes),
                 "BUILDER_ERROR")
    ELSE Ok(b)

\* Line 727: tag.0.split_once('#')
dispatch_hash(b, hash, attributes) ==
    IF hash = <<>> THEN Err("IO_ERROR")
    ELSE dispatch_tag_id(b, hash[1][2], attributes)

\* Lines 722-726: line.trim_end().split_once(':')
dispatch_tag(b, tag) ==
    IF tag = <<>> THEN Err("IO_ERROR")
    ELSE dispatch_hash(b, split_once(tag[1][1], "#"), tag[1][2])

\* Lines 738-742: a line that is not a tag is read as a segment tag too.
dispatch_uri(b, l) ==
    IF MediaSegmentTag_from_str(l).ok
    THEN map_err(MediaSegmentTag_read(MediaSegmentTag_from_str(l).v, b,
                                      trim_end(l)),
                 "BUILDER_ERROR")
    ELSE Ok(b)

\* Lines 721-743.
dispatch_line(b, l) ==
    IF starts_with_EXT(l) THEN dispatch_tag(b, split_once(trim_end(l), ":"))
    ELSE IF is_uri(l) THEN dispatch_uri(b, l)
    ELSE Ok(b)

\* A boundary test that also takes the end of the input for a boundary.
is_boundary_or_end(l) == is_uri(l) \/ l = <<"EXT-X-ENDLIST">> \/ l = <<>>

\* Line 744.
is_boundary(l) == is_uri(l) \/ l = <<"EXT-X-ENDLIST">>

\* A seal that lets a segment without a duration through.
seal_segment_default_duration(b, l) ==
    IF is_boundary(l)
    THEN and_then(
             map_err(build([default_none(
                                default_none(b.segment, "program_date_time"),
                                "duration")
                              EXCEPT !.partial_segments = <<b.parts>>]),
                     "BUILDER_ERROR"),
             LAMBDA m : Ok([b EXCEPT !.media_segments = Append(@, m),
                                     !.segment = MediaSegmentBuilder_default,
                                     !.parts = <<>>]))
    ELSE Ok(b)

\* A seal that also starts the list of rendition reports afresh.
seal_segment_drop_reports(b, l) ==
    IF is_boundary(l)
    THEN and_then(
             map_err(build([default_none(b.segment, "program_date_time")
                              EXCEPT !.partial_segments = <<b.parts>>]),
                     "BUILDER_ERROR"),
             LAMBDA m : Ok([b EXCEPT !.media_segments = Append(@, m),
                                     !.segment = MediaSegmentBuilder_default,
                                     !.parts = <<>>,
                                     !.rendition_reports = <<>>]))
    ELSE Ok(b)

\* A seal that starts the next segment with a fresh builder but leaves the
\* accumulated parts in place.
seal_segment_keep_parts(b, l) ==
    IF is_boundary(l)
    THEN and_then(
             map_err(build([default_none(b.segment, "program_date_time")
                              EXCEPT !.partial_segments = <<b.parts>>]),
                     "BUILDER_ERROR"),
             LAMBDA m : Ok([b EXCEPT !.media_segments = Append(@, m),
                                     !.segment = MediaSegmentBuilder_default]))
    ELSE Ok(b)

\* Lines 745-758: the in-progress segment is built and pushed, and a fresh
\* builder takes its place.
seal_segment(b, l) ==
    IF is_boundary(l)
    THEN and_then(
             map_err(build([default_none(b.segment, "program_date_time")
                              EXCEPT !.partial_segments = <<b.parts>>]),
                     "BUILDER_ERROR"),
             LAMBDA m : Ok([b EXCEPT !.media_segments = Append(@, m),
                                     !.segment = MediaSegmentBuilder_default,
                                     !.parts = <<>>]))
    ELSE Ok(b)

\* Lines 720-759.
scan_line(b, l) == and_then(dispatch_line(b, l), LAMBDA d : seal_segment(d, l))

\* A final build that forgets to hand the rendition reports to the builder.
build_playlist_no_reports(b) ==
    map_err(build([b.playlist EXCEPT
                     !.media_segments = <<b.media_segments>>]),
            "BUILDER_ERROR")

\* Lines 765-770: the final build of the playlist.
build_playlist(b) ==
    map_err(build([b.playlist EXCEPT
                     !.media_segments = <<b.media_segments>>,
                     !.rendition_reports = <<b.rendition_reports>>]),
            "BUILDER_ERROR")

---------------------------------------------------------------------------
(* read_playlist as a state machine.  One action reads the header line;    *)
(* then one action per iteration of the loop: line.clear(), read_line, the *)
(* dispatch and the segment boundary.  The last line read stays in `line`  *)
(* until the next read replaces it.                                        *)

Builders ==
    [playlist |-> playlist, rendition_reports |-> rendition_reports,
     media_segments |-> media_segments, segment |-> segment, parts |-> parts]

SetBuilders(b) ==
    /\ playlist' = b.playlist
    /\ rendition_reports' = b.rendition_reports
    /\ media_segments' = b.media_segments
    /\ segment' = b.segment
    /\ parts' = b.parts

\* A line that read_line delivered whole: it ends with its line feed.  After
\* a line without one the source is at its end.
Terminated(l) == l # <<>> /\ l[Len(l)] = "\n"
CanRead == pc = "scan" /\ source = "open" /\ Terminated(doc[Len(doc)])

\* A header test that accepts every line beginning with the marker.
is_header_prefix(l) ==
    Len(trim(l)) >= 2 /\ SubSeq(trim(l), 1, 2) = <<"#", "EXTM3U">>

\* Line 703: line.trim().eq("#EXTM3U")
is_header(l) == trim(l) = <<"#", "EXTM3U">>

\* Lines 698-718.
ReadHeader(l) ==
    /\ pc = "header"
    /\ line' = l
    /\ doc' = <<l>>
    /\ source' = IF l = <<>> THEN "eof" ELSE "open"
    /\ IF ~is_header(l)
       THEN /\ result' = <<Err("EXT3U_TAG_MISSING")>>
            /\ pc' = "done"
            /\ UNCHANGED <<playlist, rendition_reports, media_segments,
                           segment, parts>>
       ELSE /\ pc' = "scan"
            /\ playlist' = [MediaPlaylistBuilder_default EXCEPT
                              !.skip = << <<>> >>,
                              !.preload_hint = << <<>> >>]
            /\ rendition_reports' = <<>>
            /\ media_segments' = <<>>
            /\ segment' = MediaSegmentBuilder_default
            /\ parts' = <<>>
            /\ result' = <<>>
    /\ UNCHANGED strVars

\* Lines 700-702: the first read_line fails.
HeaderIoError ==
    /\ pc = "header"
    /\ pc' = "done"
    /\ source' = "failed"
    /\ result' = <<Err("IO_ERROR")>>
    /\ UNCHANGED <<line, doc, playlist, rendition_reports, media_segments,
                   segment, parts>>
    /\ UNCHANGED strVars

\* A loop body that notes the error of a line and goes on with the next.
Continue_keep_scanning(r) ==
    IF r.ok
    THEN /\ SetBuilders(r.v)
         /\ UNCHANGED <<pc, result>>
    ELSE /\ result' = <<r>>
         /\ UNCHANGED <<pc, playlist, rendition_reports, media_segments,
                        segment, parts>>

\* The `?` of the loop body: an Err ends read_playlist with it, an Ok leaves
\* the builders for the next iteration.
Continue(r) ==
    IF r.ok
    THEN /\ SetBuilders(r.v)
         /\ UNCHANGED <<pc, result>>
    ELSE /\ pc' = "done"
         /\ result' = <<r>>
         /\ UNCHANGED <<playlist, rendition_reports, media_segments,
                        segment, parts>>

\* The same for the iteration that reads the end of the input: after the
\* body the loop breaks and the playlist is built.
Finish(r) ==
    IF r.ok
    THEN /\ SetBuilders(r.v)
         /\ result' = <<build_playlist(r.v)>>
    ELSE /\ result' = <<r>>
         /\ UNCHANGED <<playlist, rendition_reports, media_segments,
                        segment, parts>>

\* Lines 719-764 for a line of read_bytes > 0.
ScanStep(l) ==
    /\ CanRead
    /\ l # <<>>
    /\ line' = l
    /\ doc' = Append(doc, l)
    /\ Continue(scan_line(Builders, l))
    /\ UNCHANGED source
    /\ UNCHANGED strVars

ScanTagLine(l) == starts_with_EXT(l) /\ ScanStep(l)

ScanUriLine(l) == ~starts_with_EXT(l) /\ is_uri(l) /\ ScanStep(l)

ScanOtherLine(l) == ~starts_with_EXT(l) /\ ~is_uri(l) /\ ScanStep(l)

\* Lines 719-770 at the end of the input: read_line returns Ok(0), the empty
\* line goes through the loop body, the loop breaks and the playlist is built.
ScanEof ==
    /\ pc = "scan"
    /\ source = "open"
    /\ line' = <<>>
    /\ source' = "eof"
    /\ pc' = "done"
    /\ Finish(scan_line(Builders, <<>>))
    /\ UNCHANGED doc
    /\ UNCHANGED strVars

\* Line 719 when read_line returns Err: `while let Ok(..)` ends the loop and
\* the playlist is built from what was scanned.
ScanIoError ==
    /\ CanRead
    /\ line' = <<>>
    /\ source' = "failed"
    /\ pc' = "done"
    /\ result' = <<build_playlist(Builders)>>
    /\ UNCHANGED <<doc, playlist, rendition_reports, media_segments,
                   segment, parts>>
    /\ UNCHANGED strVars

InitScan ==
    /\ pc = "header"
    /\ line = <<>>
    /\ doc = <<>>
    /\ playlist = MediaPlaylistBuilder_default
    /\ rendition_reports = <<>>
    /\ media_segments = <<>>
    /\ segment = MediaSegmentBuilder_default
    /\ parts = <<>>
    /\ result = <<>>
    /\ source = "open"
    /\ entity = "none"
    /\ attrs = <<>>
    /\ prefixed = FALSE
    /\ parsed = <<>>
    /\ text = <<>>
    /\ reparsed = <<>>

---------------------------------------------------------------------------
(* The documents the line source delivers: lines of the wire format, each  *)
(* a token sequence ending with its line feed.                             *)

TagLine(name, value) == <<"#", name, ":">> \o value \o <<"\n">>
Quoted(w) == <<"\"", w, "\"">>
Attr(name, value) == <<name, "=">> \o value

HeaderLine == <<"#", "EXTM3U", "\n">>

\* What the first read can deliver: the header, the header inside white
\* space, the header without a line feed, the end of an empty input, and
\* lines that are not the header.
HeaderLines ==
    {HeaderLine,
     <<" ", "#", "EXTM3U", " ", "\n">>,
     <<"#", "EXTM3U">>,
     <<>>,
     <<"\n">>,
     <<"#", "EXTM3U8", "\n">>,
     <<"#", "EXTM3U", " ", "x", "\n">>,
     <<"#", "EXT-X-VERSION", ":", "9", "\n">>,
     <<"file0.mp4", "\n">>}

TargetDurationLine(n) == TagLine("EXT-X-TARGETDURATION", <<n>>)
VersionLine(n) == TagLine("EXT-X-VERSION", <<n>>)
PartInfLine == TagLine("EXT-X-PART-INF", Attr("PART-TARGET", <<"0.5">>))
MediaSequenceLine == TagLine("EXT-X-MEDIA-SEQUENCE", <<"0">>)
ServerControlAttrs ==
    << Attr("CAN-BLOCK-RELOAD", <<"YES">>), Attr("PART-HOLD-BACK", <<"1.5">>),
       Attr("CAN-SKIP-UNTIL", <<"6.0">>) >>
ServerControlLine == TagLine("EXT-X-SERVER-CONTROL", join(ServerControlAttrs, ","))

\* EXT-X-SERVER-CONTROL lines that lack one of the three attributes.
ServerControlLinesLacking ==
    {TagLine("EXT-X-SERVER-CONTROL",
             join(SelectSeq(ServerControlAttrs,
                            LAMBDA el : el # ServerControlAttrs[i]), ","))
       : i \in 1..Len(ServerControlAttrs)}
SkipLine == TagLine("EXT-X-SKIP", Attr("SKIPPED-SEGMENTS", <<"4">>))
PreloadHintLine ==
    TagLine("EXT-X-PRELOAD-HINT",
            join(<<Attr("TYPE", <<"PART">>), Attr("URI", Quoted("next.mp4"))>>, ","))
\* A preload hint with a byte range attribute after its TYPE and URI.
PreloadHintByterangeLine(name) ==
    TagLine("EXT-X-PRELOAD-HINT",
            join(<<Attr("TYPE", <<"PART">>), Attr("URI", Quoted("next.mp4")),
                   Attr(name, <<"0">>)>>, ","))
RenditionReportLine(msn) ==
    TagLine("EXT-X-RENDITION-REPORT",
            join(<<Attr("URI", Quoted("low.m3u8")), Attr("LAST-MSN", <<msn>>),
                   Attr("LAST-PART", <<"0">>)>>, ","))

\* The five tags the final build requires, in the order of the test file.
RequiredLines(td, ver) ==
    <<TargetDurationLine(td), VersionLine(ver), PartInfLine, MediaSequenceLine,
      ServerControlLine>>

InfLine(d, title) == TagLine("EXTINF", <<d, ",">> \o title)
PartLine(elems) == TagLine("EXT-X-PART", join(elems, ","))
PartA == <<Attr("DURATION", <<"0.5">>), Attr("URI", Quoted("p1.mp4"))>>
PartB == <<Attr("DURATION", <<"0.33">>), Attr("URI", Quoted("p2.mp4")),
           Attr("INDEPENDENT", <<"YES">>)>>
DateTimeLine ==
    TagLine("EXT-X-PROGRAM-DATE-TIME", <<"2024-05-01T10", ":", "00", ":", "00Z">>)
UriLine(name) == <<name, "\n">>

ValidPlaylistLines ==
    {TargetDurationLine("6"), TargetDurationLine("4"), VersionLine("9"),
     PartInfLine, MediaSequenceLine, ServerControlLine, SkipLine,
     PreloadHintLine, RenditionReportLine("6")}

InvalidPlaylistLines ==
    {TargetDurationLine("6.0"),
     <<"#", "EXT-X-VERSION", "\n">>,
     TagLine("EXT-X-PART-INF", <<>>),
     TagLine("EXT-X-SERVER-CONTROL",
             join(<<Attr("CAN-BLOCK-RELOAD", <<"TRUE">>)>> \o Tail(ServerControlAttrs), ",")),
     TagLine("EXT-X-PRELOAD-HINT",
             join(<<Attr("TYPE", <<"PART">>), Attr("URI", Quoted("next.mp4")),
                    Attr("BYTERANGE-START", <<"0">>)>>, ",")),
     TagLine("EXT-X-RENDITION-REPORT", Attr("URI", Quoted("low.m3u8")))}
    \cup ServerControlLinesLacking

ValidSegmentLines ==
    {InfLine("6.0", <<>>), InfLine("4.0", <<"title">>),
     InfLine("6.0", <<"9", ",", "x">>), PartLine(PartA),
     PartLine(PartB), DateTimeLine}

InvalidSegmentLines ==
    {TagLine("EXTINF", <<"6.0">>),
     TagLine("EXTINF", <<"long", ",">>),
     PartLine(<<Attr("DURATION", <<"0.5">>)>>),
     PartLine(Append(PartA, Attr("INDEPENDENT", <<"MAYBE">>))),
     PartLine(Append(PartA, Attr("INDEPENDENT", <<"yes">>))),
     PartLine(Append(PartA, Attr("BYTERANGE", Quoted("20@0")))),
     TagLine("EXT-X-PROGRAM-DATE-TIME", <<"yesterday">>)}

\* Lines that begin with #EXT and carry a tag name outside the registry.
UnknownTagLines ==
    {TagLine("EXT-X-FUTURE", <<"bar">>),
     TagLine("EXT-X-MAP", Attr("URI", Quoted("init.mp4"))),
     <<"#", "EXT-X-DISCONTINUITY", "\n">>,
     <<"#", "EXT-X-ENDLIST", "\n">>}

\* Blank lines and comments.
OtherLines == {<<"\n">>, <<" ", "\n">>, <<"#", " ", "note", "\n">>}

\* Resource locators that are URI references, each on a line of its own.
ValidUriLines == {UriLine("file0.mp4"), UriLine("file1.mp4")}

\* Lines that neither begin with '#' nor are blank, and are not such a
\* locator: white space inside, or a last line without a line feed.
OddUriLines ==
    {<<"my", " ", "file.mp4", "\n">>, <<"file2.mp4">>, <<"EXTINF">>,
     <<"EXT-X-PART">>, <<"EXT-X-ENDLIST">>}

ScanLines ==
    ValidPlaylistLines \cup InvalidPlaylistLines \cup ValidSegmentLines
    \cup InvalidSegmentLines \cup UnknownTagLines \cup OtherLines
    \cup ValidUriLines \cup OddUriLines

---------------------------------------------------------------------------
(* Spec: every short document over the whole alphabet.                     *)

MaxLines == 2

Offer == IF Len(doc) <= MaxLines THEN ScanLines ELSE {}

Next ==
    \/ \E l \in HeaderLines : ReadHeader(l)
    \/ HeaderIoError
    \/ \E l \in Offer : ScanTagLine(l)
    \/ \E l \in Offer : ScanUriLine(l)
    \/ \E l \in Offer : ScanOtherLine(l)
    \/ ScanEof
    \/ ScanIoError

Spec == InitScan /\ [][Next]_vars

\* The tag name of a line that begins with #EXT: what stands between the '#'
\* and the first ':' (or the end of the line).
TagNameOf(l) ==
    SubSeq(trim_end(l), 2,
           IF Find(trim_end(l), ":") = 0 THEN Len(trim_end(l))
           ELSE Find(trim_end(l), ":") - 1)

RecognizedTagNames ==
    {<<"EXT-X-TARGETDURATION">>, <<"EXT-X-VERSION">>, <<"EXT-X-PART-INF">>,
     <<"EXT-X-MEDIA-SEQUENCE">>, <<"EXT-X-SKIP">>, <<"EXT-X-PRELOAD-HINT">>,
     <<"EXT-X-RENDITION-REPORT">>, <<"EXT-X-SERVER-CONTROL">>, <<"EXTINF">>,
     <<"EXT-X-PART">>, <<"EXT-X-PROGRAM-DATE-TIME">>}

IsUnknownTagLine(l) ==
    starts_with_EXT(l) /\ TagNameOf(l) \notin RecognizedTagNames

\* This step of the scan reads the line l.
Reads(l) == pc = "scan" /\ doc' = Append(doc, l)

HeaderMissing == <<Err("EXT3U_TAG_MISSING")>>

\* C1: when the first line, trimmed, is not exactly #EXTM3U (the empty input
\* included), read_playlist returns EXT3U_TAG_MISSING at once: no further
\* line is read, so nothing that follows can change the result.
C1_HeaderMissing ==
    (doc # <<>> /\ trim(doc[1]) # <<"#", "EXTM3U">>) =>
        /\ pc = "done"
        /\ result = HeaderMissing
        /\ Len(doc) = 1

\* C1 witness: a first line that is a valid tag line but not the header, and
\* the empty input, were both rejected.
C1_Witness ==
    /\ result = HeaderMissing
    /\ doc \in {<< <<"#", "EXT-X-VERSION", ":", "9", "\n">> >>, << <<>> >>}

\* C2: a line that begins with #EXT and whose tag name is outside the
\* registry is skipped: it changes neither the playlist builder nor the
\* in-progress segment builder and does not end the parse with an error.
C2_UnknownTagSkipped ==
    [][\A l \in {u \in ScanLines : IsUnknownTagLine(u) /\ Find(u, ":") # 0} :
          Reads(l) =>
              /\ result' = <<>>
              /\ UNCHANGED <<playlist, rendition_reports, media_segments,
                             segment, parts>>]_vars

EndListLine == <<"#", "EXT-X-ENDLIST", "\n">>

\* C4: the end-of-list marker is a segment boundary: reading it seals the
\* in-progress segment builder into a MediaSegment appended to the segment
\* list, and a fresh empty builder begins.
C4_EndListSeals ==
    [][Reads(EndListLine) =>
          /\ result' = <<>>
          /\ Len(media_segments') = Len(media_segments) + 1
          /\ segment' = MediaSegmentBuilder_default
          /\ parts' = <<>>]_vars

BuilderError == <<Err("BUILDER_ERROR")>>

\* C12: an EXT-X-SERVER-CONTROL line that lacks one of CAN-BLOCK-RELOAD,
\* PART-HOLD-BACK and CAN-SKIP-UNTIL ends the parse at that line with
\* BUILDER_ERROR, whatever was read before it; the playlist builder is left
\* as it was and no playlist is returned.
C12_ServerControlIncomplete ==
    [][\A l \in ServerControlLinesLacking :
          Reads(l) =>
              /\ pc' = "done"
              /\ result' = BuilderError
              /\ UNCHANGED playlist]_vars

\* C12 witness: after a valid tag line, a server control line without
\* PART-HOLD-BACK ended the parse.
C12_Witness ==
    /\ pc = "done"
    /\ result = BuilderError
    /\ Len(doc) = 3
    /\ doc[2] = VersionLine("9")
    /\ doc[3] = TagLine("EXT-X-SERVER-CONTROL",
                        join(<<ServerControlAttrs[1], ServerControlAttrs[3]>>, ","))

\* Tag lines with a boolean attribute whose value is neither YES nor NO.
BadBooleanLines ==
    {PartLine(Append(PartA, Attr("INDEPENDENT", <<"MAYBE">>))),
     PartLine(Append(PartA, Attr("INDEPENDENT", <<"yes">>))),
     TagLine("EXT-X-SERVER-CONTROL",
             join(<<Attr("CAN-BLOCK-RELOAD", <<"TRUE">>)>>
                  \o Tail(ServerControlAttrs), ","))}

\* C13: a tag line with a boolean attribute value outside {YES, NO} ends
\* the parse at that line with an error: the failure is not swallowed, no
\* part is appended, the playlist builder is left as it was and no playlist
\* is returned.
C13_BadBooleanFails ==
    [][\A l \in BadBooleanLines :
          Reads(l) =>
              /\ pc' = "done"
              /\ result' = BuilderError
              /\ UNCHANGED <<parts, playlist, segment, media_segments>>]_vars

\* C13 witness: after a valid part, a part with INDEPENDENT=MAYBE ended the
\* parse and the part list still holds the one valid part.
C13_Witness ==
    /\ pc = "done"
    /\ result = BuilderError
    /\ Len(doc) = 3
    /\ doc[2] = PartLine(PartA)
    /\ doc[3] = PartLine(Append(PartA, Attr("INDEPENDENT", <<"MAYBE">>)))
    /\ Len(parts) = 1

\* C14: once a read of the line source has failed, on the header line or
\* on a later one, the result of read_playlist is IO_ERROR: neither a
\* playlist nor another error.
C14_IoFailureIsIoError ==
    source = "failed" => result = <<Err("IO_ERROR")>>

\* Tag lines that are malformed: no ':' after the tag name, an EXTINF
\* value without a comma, an attribute with a value that does not parse.
MalformedTagLines ==
    {<<"#", "EXT-X-VERSION", "\n">>,
     TagLine("EXTINF", <<"6.0">>),
     PartLine(Append(PartA, Attr("INDEPENDENT", <<"MAYBE">>))),
     TagLine("EXT-X-RENDITION-REPORT", Attr("URI", Quoted("low.m3u8")))}

\* C17: a malformed tag line ends the parse with BUILDER_ERROR, and
\* IO_ERROR is the result only after a read of the line source has failed.
C17_MalformedIsBuilderError ==
    [][/\ \A l \in MalformedTagLines : Reads(l) => result' = BuilderError
       /\ result' = <<Err("IO_ERROR")>> => source' = "failed"]_vars

\* Lines that cannot be read without an error, whatever was read before:
\* tags with a malformed value or attribute list, a tag without ':', a
\* locator that is no URI reference.
ErrorLines ==
    InvalidPlaylistLines \cup InvalidSegmentLines
    \cup {<<"my", " ", "file.mp4", "\n">>}

\* A locator line that is read while the in-progress segment has no
\* duration: the seal fails.
SealFails(l) == is_uri(l) /\ segment.duration = <<>>

\* C22: the first line with a tag, attribute, URI or seal error ends the
\* scan with an Err result; once read_playlist has returned, no further
\* line is read or applied and the result stays what it is.
C22_FailFast ==
    [][/\ \A l \in ScanLines :
              (Reads(l) /\ (l \in ErrorLines \/ SealFails(l))) =>
                  /\ pc' = "done"
                  /\ result' # <<>>
                  /\ ~result'[1].ok
                  /\ UNCHANGED <<playlist, rendition_reports, media_segments,
                                 segment, parts>>
       /\ pc = "done" =>
              UNCHANGED <<doc, result, playlist, rendition_reports,
                          media_segments, segment, parts>>]_vars

\* C22 witness: after a valid tag, a line with a malformed value ended the
\* scan with an error; the builder holds the first tag and was not
\* returned.
C22_Witness ==
    /\ pc = "done"
    /\ source = "open"
    /\ Len(doc) = 3
    /\ doc[2] = VersionLine("9")
    /\ doc[3] = TargetDurationLine("6.0")
    /\ result = BuilderError
    /\ playlist.version = <<9>>

---------------------------------------------------------------------------
(* SpecSegments: documents that begin with the header and the five         *)
(* required playlist tags and go on with lines about segments.             *)

MaxBody == 5

\* The lines of the body: segment tags, locators with and without the final
\* line feed, a last line that spells a tag name, an unknown tag and a
\* blank line.
SegmentLines ==
    {InfLine("6.0", <<>>), InfLine("4.0", <<"title">>), PartLine(PartA),
     PartLine(PartB), DateTimeLine, UriLine("file0.mp4"), UriLine("file1.mp4"),
     <<"file2.mp4">>, <<"EXTINF">>, TagLine("EXT-X-FUTURE", <<"bar">>),
     <<"\n">>}

Preamble(td) == <<HeaderLine>> \o RequiredLines(td, "9")

PreambleLen == Len(Preamble("6"))

OfferSegments ==
    IF Len(doc) < PreambleLen
    THEN {Preamble(td)[Len(doc) + 1] : td \in {"6", "4"}}
    ELSE IF Len(doc) < PreambleLen + MaxBody THEN SegmentLines
    ELSE {}

NextSegments ==
    \/ ReadHeader(HeaderLine)
    \/ \E l \in OfferSegments : ScanTagLine(l)
    \/ \E l \in OfferSegments : ScanUriLine(l)
    \/ \E l \in OfferSegments : ScanOtherLine(l)
    \/ ScanEof
    \/ ScanIoError

SpecSegments == InitScan /\ [][NextSegments]_vars

\* A resource-locator line: not empty but for white space, and not
\* beginning with '#'.
IsLocator(l) ==
    /\ l # <<>>
    /\ l[1] # "#"
    /\ \E i \in 1..Len(l) : ~IsWhite(l[i])

\* The locator lines of a document, the rank of one among them, and the
\* lines read since the boundary before it.
LocatorIdx(d) == {i \in 2..Len(d) : IsLocator(d[i])}
Rank(d, i) == Cardinality({j \in LocatorIdx(d) : j <= i})
PrevBoundary(d, i) ==
    CHOOSE j \in {1} \cup LocatorIdx(d) :
        /\ j < i
        /\ \A k \in LocatorIdx(d) : k < i => k <= j
Since(d, i) == SubSeq(d, PrevBoundary(d, i) + 1, i - 1)

HasTag(l, name) == Len(l) >= 3 /\ l[1] = "#" /\ l[2] = name /\ l[3] = ":"
IsInf(l) == HasTag(l, "EXTINF")
IsPart(l) == HasTag(l, "EXT-X-PART")
IsDateTime(l) == HasTag(l, "EXT-X-PROGRAM-DATE-TIME")
TagValue(l) == SubSeq(l, 4, Len(l) - 1)
LastOf(s) == s[Len(s)]

\* What the lines of the vocabulary say.
DurationOf(l) ==
    CASE TagValue(l)[1] = "6.0" -> 600
      [] TagValue(l)[1] = "4.0" -> 400
PartOf(l) ==
    CASE l = PartLine(PartA) ->
           [part_duration |-> 50, uri |-> Quoted("p1.mp4"),
            independent |-> <<>>]
      [] l = PartLine(PartB) ->
           [part_duration |-> 33, uri |-> Quoted("p2.mp4"),
            independent |-> <<TRUE>>]
PartsOf(ls) == [k \in 1..Len(ls) |-> PartOf(ls[k])]
DateTimeOf(ls) == IF ls = <<>> THEN <<>> ELSE <<TagValue(LastOf(ls))>>
LocatorOf(l) == IF l[Len(l)] = "\n" THEN SubSeq(l, 1, Len(l) - 1) ELSE l

\* The segment the boundary rule assigns to the locator line d[i].
ExpectedSegment(d, i) ==
    [duration |-> DurationOf(LastOf(SelectSeq(Since(d, i), IsInf))),
     uri |-> LocatorOf(d[i]),
     partial_segments |-> PartsOf(SelectSeq(Since(d, i), IsPart)),
     program_date_time |-> DateTimeOf(SelectSeq(Since(d, i), IsDateTime))]

\* C3: while the scan has met no error, there is one sealed segment per
\* resource-locator line read, in document order; each holds the duration,
\* the date and the parts read since the boundary before it and the uri of
\* its own line; and right after a locator line the in-progress builder is
\* empty.
C3_BoundaryRule ==
    pc = "scan" =>
        /\ Len(media_segments) = Cardinality(LocatorIdx(doc))
        /\ \A i \in LocatorIdx(doc) :
               media_segments[Rank(doc, i)] = ExpectedSegment(doc, i)
        /\ IsLocator(doc[Len(doc)]) =>
               /\ segment = MediaSegmentBuilder_default
               /\ parts = <<>>

\* C3 witness: two segments with different durations and locators were
\* sealed, the second with a part and the first without, and the scan goes
\* on with an empty builder.
C3_Witness ==
    /\ pc = "scan"
    /\ Len(media_segments) = 2
    /\ IsLocator(doc[Len(doc)])
    /\ media_segments[1].uri # media_segments[2].uri
    /\ media_segments[1].duration # media_segments[2].duration
    /\ media_segments[1].partial_segments = <<>>
    /\ Len(media_segments[2].partial_segments) = 1
    /\ segment = MediaSegmentBuilder_default
    /\ parts = <<>>

\* A locator line that holds a URI reference and does not spell the name of
\* a segment tag.
IsUriReferenceLine(l) ==
    /\ IsLocator(l)
    /\ \A i \in 1..Len(LocatorOf(l)) :
           ~IsWhite(LocatorOf(l)[i]) /\ LocatorOf(l)[i] # "\""
    /\ l \notin {<<"EXTINF">>, <<"EXT-X-PART">>, <<"EXT-X-PROGRAM-DATE-TIME">>}

\* An EXTINF line of the form #EXTINF:<d>,<title> with a duration.
IsInfLine(l) ==
    /\ IsInf(l)
    /\ Len(TagValue(l)) >= 2
    /\ TagValue(l)[1] \in {"6.0", "4.0"}
    /\ TagValue(l)[2] = ","

\* The documents that begin with the preamble and go on with EXTINF lines
\* and locator lines in turn, and those of them that end after a pair.
PairCount(d) == (Len(d) - PreambleLen) \div 2
IsPairsPrefix(d) ==
    /\ Len(d) >= PreambleLen
    /\ \E td \in {"6", "4"} : SubSeq(d, 1, PreambleLen) = Preamble(td)
    /\ \A j \in 1..(Len(d) - PreambleLen) :
           IF j % 2 = 1 THEN IsInfLine(d[PreambleLen + j])
           ELSE IsUriReferenceLine(d[PreambleLen + j])
IsPairsDoc(d) == IsPairsPrefix(d) /\ (Len(d) - PreambleLen) % 2 = 0

TargetDurationOf(d) == IF d[2] = TargetDurationLine("6") THEN 6 ELSE 4

EndsWithTwoParts(d) ==
    /\ Len(d) >= PreambleLen + 3
    /\ IsPart(d[Len(d) - 2])
    /\ IsPart(d[Len(d) - 1])
    /\ IsUriReferenceLine(d[Len(d)])
    /\ Len(SelectSeq(Since(d, Len(d)), IsPart)) = 2

TwoPartsSealed ==
    /\ Len(media_segments) = Cardinality(LocatorIdx(doc))
    /\ media_segments # <<>>
    /\ LastOf(media_segments).partial_segments =
           <<PartOf(doc[Len(doc) - 2]), PartOf(doc[Len(doc) - 1])>>

Trailing(d) == SubSeq(d, PrevBoundary(d, Len(d) + 1) + 1, Len(d))
IsSegmentTag(l) == IsInf(l) \/ IsPart(l) \/ IsDateTime(l)

\* C15: when the input ends after segment tags that no locator line
\* followed, the parse does not fail for it and the returned playlist holds
\* one segment per locator line, each with what was read up to its own
\* line: the trailing tags add no segment and their parts are in none.
C15_TrailingDiscarded ==
    (/\ pc = "done"
     /\ source = "eof"
     /\ Len(doc) >= PreambleLen
     /\ SelectSeq(Trailing(doc), IsSegmentTag) # <<>>)
    => /\ result # <<>>
       /\ result[1].ok
       /\ Len(result[1].v.media_segments) = Cardinality(LocatorIdx(doc))
       /\ \A i \in LocatorIdx(doc) :
              result[1].v.media_segments[Rank(doc, i)] = ExpectedSegment(doc, i)

\* C15 witness: the input ended after a sealed segment and a trailing
\* EXTINF and EXT-X-PART, and the playlist holds the one segment.
C15_Witness ==
    /\ pc = "done"
    /\ source = "eof"
    /\ SubSeq(doc, PreambleLen + 1, Len(doc)) =
           <<InfLine("6.0", <<>>), UriLine("file0.mp4"),
             InfLine("4.0", <<"title">>), PartLine(PartA)>>
    /\ result # <<>>
    /\ result[1].ok
    /\ Len(result[1].v.media_segments) = 1

\* The EXTINF lines of the alphabet, and what stands before the first comma
\* of the value of one.
InfLines == {l \in ScanLines : IsInf(l)}
HasComma(l) == \E i \in 1..Len(TagValue(l)) : TagValue(l)[i] = ","
BeforeComma(l) ==
    SubSeq(TagValue(l), 1,
           (CHOOSE i \in 1..Len(TagValue(l)) :
               /\ TagValue(l)[i] = ","
               /\ \A j \in 1..(i - 1) : TagValue(l)[j] # ",") - 1)

\* C18: an EXTINF line sets the duration of the in-progress segment from
\* what stands before the first comma of its value, whatever title follows,
\* and changes nothing else; an EXTINF value without a comma ends the parse
\* with an error and leaves the duration as it was.
C18_ExtInf ==
    [][\A l \in InfLines :
          Reads(l) =>
              IF HasComma(l) /\ f32_from_str(BeforeComma(l)).ok
              THEN /\ pc' = "scan"
                   /\ segment' = [segment EXCEPT
                                     !.duration = <<f32_from_str(BeforeComma(l)).v>>]
                   /\ UNCHANGED <<parts, media_segments, playlist,
                                  rendition_reports>>
              ELSE /\ pc' = "done"
                   /\ result' = BuilderError
                   /\ UNCHANGED segment]_vars

\* C18 witness: after an EXTINF of 4.0 with a title, an EXTINF of 6.0 whose
\* title holds a number and a comma set the duration to 6.0.
C18_Witness ==
    /\ pc = "scan"
    /\ Len(doc) = 3
    /\ doc[2] = InfLine("4.0", <<"title">>)
    /\ doc[3] = InfLine("6.0", <<"9", ",", "x">>)
    /\ segment.duration = <<600>>

\* The EXT-X-PART lines of the alphabet and the valid ones among them.
PartLines == {l \in ScanLines : IsPart(l)}
ValidPartLines == {PartLine(PartA), PartLine(PartB)}

\* C19: a valid EXT-X-PART line appends its part at the end of the part
\* list of the in-progress segment and leaves the segment's duration, uri
\* and date, the sealed segments, the playlist fields and the rendition
\* reports unchanged; an EXT-X-PART line that fails appends nothing.
C19_PartAppends ==
    [][\A l \in PartLines :
          Reads(l) =>
              IF l \in ValidPartLines
              THEN /\ pc' = "scan"
                   /\ parts' = Append(parts, PartOf(l))
                   /\ UNCHANGED <<segment, media_segments, playlist,
                                  rendition_reports>>
              ELSE /\ pc' = "done"
                   /\ result' = BuilderError
                   /\ UNCHANGED parts]_vars

\* C19 witness: two different parts were read one after the other and
\* stand in the part list in that order.
C19_Witness ==
    /\ pc = "scan"
    /\ Len(doc) = 3
    /\ doc[2] = PartLine(PartB)
    /\ doc[3] = PartLine(PartA)
    /\ parts = <<PartOf(PartLine(PartB)), PartOf(PartLine(PartA))>>

\* C21: a locator line read when no EXTINF line was read since the
\* boundary before it (or since the header) ends the parse with
\* BUILDER_ERROR and appends no segment; and every segment of a returned
\* playlist has a duration and a uri.
C21_SealNeedsDuration ==
    [][/\ \A l \in SegmentLines :
              (/\ Reads(l)
               /\ IsLocator(l)
               /\ SelectSeq(Trailing(doc), IsInf) = <<>>)
              => /\ pc' = "done"
                 /\ result' = BuilderError
                 /\ UNCHANGED media_segments
       /\ (pc' = "done" /\ result'[1].ok) =>
              \A i \in 1..Len(result'[1].v.media_segments) :
                  /\ result'[1].v.media_segments[i].duration \in Nat
                  /\ result'[1].v.media_segments[i].uri # <<>>]_vars

\* C21 witness: after a sealed segment, a part and a locator line without
\* an EXTINF of their own ended the parse, and the one segment is all that
\* was appended.
C21_Witness ==
    /\ pc = "done"
    /\ result = BuilderError
    /\ SubSeq(doc, PreambleLen + 1, Len(doc)) =
           <<InfLine("6.0", <<>>), UriLine("file0.mp4"), PartLine(PartA),
             UriLine("file1.mp4")>>
    /\ Len(media_segments) = 1

---------------------------------------------------------------------------
(* SpecReports: documents that begin with the header and the five required *)
(* playlist tags and go on with rendition reports among segment lines.     *)

MaxReportLines == 5

\* The lines of the body: two rendition reports, one without its LAST-MSN
\* and LAST-PART, and the lines of a segment.
ReportLines ==
    {RenditionReportLine("6"), RenditionReportLine("4"),
     TagLine("EXT-X-RENDITION-REPORT", Attr("URI", Quoted("low.m3u8"))),
     InfLine("6.0", <<>>), PartLine(PartA), UriLine("file0.mp4"), <<"\n">>}

OfferReports ==
    IF Len(doc) < PreambleLen
    THEN {Preamble(td)[Len(doc) + 1] : td \in {"6", "4"}}
    ELSE IF Len(doc) < PreambleLen + MaxReportLines THEN ReportLines
    ELSE {}

NextReports ==
    \/ ReadHeader(HeaderLine)
    \/ \E l \in OfferReports : ScanTagLine(l)
    \/ \E l \in OfferReports : ScanUriLine(l)
    \/ \E l \in OfferReports : ScanOtherLine(l)
    \/ ScanEof
    \/ ScanIoError

SpecReports == InitScan /\ [][NextReports]_vars

\* What the rendition report lines of the vocabulary say.
IsReport(l) == HasTag(l, "EXT-X-RENDITION-REPORT")
ReportOf(l) ==
    [uri |-> Quoted("low.m3u8"),
     last_msn |-> IF l = RenditionReportLine("6") THEN 6 ELSE 4,
     last_part |-> 0]
ReportsOf(d) ==
    [k \in 1..Len(SelectSeq(d, IsReport)) |-> ReportOf(SelectSeq(d, IsReport)[k])]

\* C16: the rendition reports are the EXT-X-RENDITION-REPORT lines read, in
\* document order, wherever they stand among the segment lines, in the
\* builder while the scan goes on and in the playlist returned at the end
\* of the input; reading one leaves the in-progress segment, its parts and
\* the sealed segments unchanged, and reading a locator line leaves the
\* reports unchanged.
C16_RenditionReports ==
    [][/\ pc' = "scan" => rendition_reports' = ReportsOf(doc')
       /\ (pc' = "done" /\ source' = "eof" /\ Len(doc') >= PreambleLen) =>
              /\ result'[1].ok
              /\ result'[1].v.rendition_reports = ReportsOf(doc')
       /\ \A l \in ReportLines :
              (Reads(l) /\ IsReport(l) /\ pc' = "scan") =>
                  UNCHANGED <<segment, parts, media_segments>>
       /\ \A l \in ReportLines :
              (Reads(l) /\ IsLocator(l)) => UNCHANGED rendition_reports]_vars

\* C16 witness: a playlist was returned with two different reports, the
\* first read before a segment's EXTINF and the second after its locator.
C16_Witness ==
    /\ pc = "done"
    /\ source = "eof"
    /\ SubSeq(doc, PreambleLen + 1, Len(doc)) =
           <<RenditionReportLine("4"), InfLine("6.0", <<>>),
             UriLine("file0.mp4"), RenditionReportLine("6")>>
    /\ result # <<>>
    /\ result[1].ok
    /\ Len(result[1].v.rendition_reports) = 2
    /\ Len(result[1].v.media_segments) = 1

---------------------------------------------------------------------------
(* SpecPlaylist: documents that hold any of the five required playlist     *)
(* tags, in the order of the test file, among a few other lines.           *)

MaxExtra == 2

Required == RequiredLines("6", "9")

\* The other lines: a second target duration, the optional tags, a
\* segment's two lines, a blank line, a tag with a malformed value and
\* preload hints with a byte range attribute.
ExtraLines ==
    {TargetDurationLine("4"), SkipLine, PreloadHintLine,
     RenditionReportLine("6"), InfLine("6.0", <<>>), UriLine("file0.mp4"),
     <<"\n">>, TargetDurationLine("6.0"),
     PreloadHintByterangeLine("BYTERANGE-START"),
     PreloadHintByterangeLine("BYTERANGE-LENGTH")}

IsRequiredLine(l) == \E i \in 1..Len(Required) : Required[i] = l
LaterRequired(d) ==
    {i \in 1..Len(Required) :
        \A j \in 2..Len(d) : \A k \in i..Len(Required) : d[j] # Required[k]}
Extras(d) == Cardinality({j \in 2..Len(d) : ~IsRequiredLine(d[j])})

OfferPlaylist ==
    {Required[i] : i \in LaterRequired(doc)}
    \cup (IF Extras(doc) < MaxExtra THEN ExtraLines ELSE {})

NextPlaylist ==
    \/ ReadHeader(HeaderLine)
    \/ \E l \in OfferPlaylist : ScanTagLine(l)
    \/ \E l \in OfferPlaylist : ScanUriLine(l)
    \/ \E l \in OfferPlaylist : ScanOtherLine(l)
    \/ ScanEof
    \/ ScanIoError

SpecPlaylist == InitScan /\ [][NextPlaylist]_vars

RequiredTagNames ==
    {"EXT-X-TARGETDURATION", "EXT-X-VERSION", "EXT-X-PART-INF",
     "EXT-X-MEDIA-SEQUENCE", "EXT-X-SERVER-CONTROL"}

Occurs(d, name) == \E i \in 2..Len(d) : HasTag(d[i], name)
Occurrences(d, name) == Cardinality({i \in 2..Len(d) : HasTag(d[i], name)})

\* The scan has read the whole input: every line was read without an error
\* and the line source reported its end.
AtEndOfInput == pc = "done" /\ source = "eof" /\ doc # <<>> /\ is_header(doc[1])

\* C6: at the end of an input scanned without error the result is a
\* MediaPlaylist exactly when each of the five required tags was read, and
\* BUILDER_ERROR otherwise; skip and preload_hint are absent when their tags
\* were not read; the segment and rendition report lists are whatever was
\* collected, empty included.
C6_FinalBuild ==
    AtEndOfInput =>
        /\ result # <<>>
        /\ result[1].ok <=> \A name \in RequiredTagNames : Occurs(doc, name)
        /\ ~result[1].ok => result[1] = Err("BUILDER_ERROR")
        /\ result[1].ok =>
               /\ ~Occurs(doc, "EXT-X-SKIP") => result[1].v.skip = <<>>
               /\ ~Occurs(doc, "EXT-X-PRELOAD-HINT") =>
                      result[1].v.preload_hint = <<>>
               /\ Len(result[1].v.media_segments) =
                      Cardinality(LocatorIdx(doc))
               /\ Len(result[1].v.rendition_reports) =
                      Occurrences(doc, "EXT-X-RENDITION-REPORT")

\* C6 witness: the five required tags and a preload hint were read, and the
\* playlist was built with no skip, no segment and no rendition report.
C6_Witness ==
    /\ AtEndOfInput
    /\ result # <<>>
    /\ result[1].ok
    /\ result[1].v.skip = <<>>
    /\ result[1].v.preload_hint # <<>>
    /\ result[1].v.media_segments = <<>>
    /\ result[1].v.rendition_reports = <<>>

PreloadHintByterangeLines ==
    {PreloadHintByterangeLine("BYTERANGE-START"),
     PreloadHintByterangeLine("BYTERANGE-LENGTH")}

\* C23: the preload hint of every returned playlist has neither
\* byterange_start nor byterange_length, and an EXT-X-PRELOAD-HINT line with
\* a BYTERANGE-START or BYTERANGE-LENGTH attribute ends read_playlist with
\* BUILDER_ERROR and leaves the playlist's preload hint as it was.
C23_PreloadHintByterange ==
    [][/\ (pc' = "done" /\ result' # <<>> /\ result'[1].ok
           /\ result'[1].v.preload_hint # <<>>) =>
              /\ result'[1].v.preload_hint[1].byterange_start = <<>>
              /\ result'[1].v.preload_hint[1].byterange_length = <<>>
       /\ \A l \in PreloadHintByterangeLines :
              Reads(l) =>
                  /\ pc' = "done"
                  /\ result' = BuilderError
                  /\ UNCHANGED playlist]_vars

\* C23 witness: after the five required tags and a preload hint, a second
\* preload hint with BYTERANGE-LENGTH ended the scan with BUILDER_ERROR.
C23_Witness ==
    /\ pc = "done"
    /\ result = BuilderError
    /\ Len(doc) = Len(Required) + 3
    /\ doc[Len(doc) - 1] = PreloadHintLine
    /\ doc[Len(doc)] = PreloadHintByterangeLine("BYTERANGE-LENGTH")
    /\ playlist.preload_hint # <<>>
    /\ playlist.preload_hint[1] # <<>>
    /\ playlist.preload_hint[1][1].byterange_length = <<>>

---------------------------------------------------------------------------
(* SpecFromStr: the entities' from_str as pure functions, and the Display  *)
(* of a PartialSegment.  The input is the attribute list made of `attrs`,  *)
(* after the tag prefix when `prefixed`.                                   *)

Entities ==
    {"PartialSegment", "ServerControl", "PartInf", "Skip", "PreloadHint",
     "RenditionReport"}

EntityTag(e) ==
    CASE e = "PartialSegment"  -> "EXT-X-PART"
      [] e = "ServerControl"   -> "EXT-X-SERVER-CONTROL"
      [] e = "PartInf"         -> "EXT-X-PART-INF"
      [] e = "Skip"            -> "EXT-X-SKIP"
      [] e = "PreloadHint"     -> "EXT-X-PRELOAD-HINT"
      [] e = "RenditionReport" -> "EXT-X-RENDITION-REPORT"

EntityAttribute(e) ==
    CASE e = "PartialSegment"  -> "PartialSegmentAttribute"
      [] e = "ServerControl"   -> "ServerControlAttribute"
      [] e = "PartInf"         -> "PartInfAttribute"
      [] e = "Skip"            -> "SkipAttribute"
      [] e = "PreloadHint"     -> "PreloadHintAttribute"
      [] e = "RenditionReport" -> "RenditionReportAttribute"

Entity_from_str(e, s) ==
    CASE e = "PartialSegment"  -> PartialSegment_from_str(s)
      [] e = "ServerControl"   -> ServerControl_from_str(s)
      [] e = "PartInf"         -> PartInf_from_str(s)
      [] e = "Skip"            -> Skip_from_str(s)
      [] e = "PreloadHint"     -> PreloadHint_from_str(s)
      [] e = "RenditionReport" -> RenditionReport_from_str(s)

\* The elements an attribute list of the entity is made of: its attributes
\* with good and bad values, names the entity does not know, and an element
\* without '='.
ElementPool(e) ==
    CASE e = "PartialSegment" ->
           {Attr("DURATION", <<"0.5">>), Attr("DURATION", <<"6.0">>),
            Attr("DURATION", <<"long">>), Attr("URI", Quoted("p1.mp4")),
            Attr("INDEPENDENT", <<"YES">>), Attr("INDEPENDENT", <<"NO">>),
            Attr("INDEPENDENT", <<"MAYBE">>), Attr("BYTERANGE", Quoted("20@0")),
            <<"GAP">>}
      [] e = "ServerControl" ->
           {Attr("CAN-BLOCK-RELOAD", <<"YES">>), Attr("CAN-BLOCK-RELOAD", <<"TRUE">>),
            Attr("PART-HOLD-BACK", <<"1.5">>), Attr("CAN-SKIP-UNTIL", <<"6.0">>),
            Attr("HOLD-BACK", <<"9">>)}
      [] e = "PartInf" ->
           {Attr("PART-TARGET", <<"0.5">>), Attr("PART-TARGET", <<"long">>),
            Attr("PART-HINT", <<"0.5">>)}
      [] e = "Skip" ->
           {Attr("SKIPPED-SEGMENTS", <<"4">>), Attr("SKIPPED-SEGMENTS", <<"long">>),
            Attr("RECENTLY-REMOVED-DATERANGES", <<"\"", "a", "\t", "b", "\"">>),
            Attr("SKIPPED-PARTS", <<"4">>)}
      [] e = "PreloadHint" ->
           {Attr("TYPE", <<"PART">>), Attr("TYPE", <<"MAP">>),
            Attr("TYPE", <<"long">>), Attr("URI", Quoted("next.mp4")),
            Attr("BYTERANGE-START", <<"0">>)}
      [] e = "RenditionReport" ->
           {Attr("URI", Quoted("low.m3u8")), Attr("LAST-MSN", <<"6">>),
            Attr("LAST-PART", <<"0">>), Attr("LAST-MSN", <<"long">>),
            Attr("BANDWIDTH", <<"9">>)}

MaxAttrs == 3

SeqsUpTo(S, n) == UNION {[1..k -> S] : k \in 0..n}

Input(e, p, as) ==
    (IF p THEN <<"#", EntityTag(e), ":">> ELSE <<>>) \o join(as, ",")

InitFromStr ==
    /\ entity \in Entities
    /\ attrs \in SeqsUpTo(ElementPool(entity), MaxAttrs)
    /\ prefixed \in BOOLEAN
    /\ parsed = <<>>
    /\ text = <<>>
    /\ reparsed = <<>>
    /\ pc = "idle"
    /\ line = <<>>
    /\ doc = <<>>
    /\ playlist = MediaPlaylistBuilder_default
    /\ rendition_reports = <<>>
    /\ media_segments = <<>>
    /\ segment = MediaSegmentBuilder_default
    /\ parts = <<>>
    /\ result = <<>>
    /\ source = "open"

\* <entity>::from_str(input)
Parse ==
    /\ pc = "idle"
    /\ parsed = <<>>
    /\ parsed' = <<Entity_from_str(entity, Input(entity, prefixed, attrs))>>
    /\ UNCHANGED <<entity, attrs, prefixed, text, reparsed>>
    /\ UNCHANGED scanVars

\* part.to_string() on a parsed PartialSegment
Serialize ==
    /\ entity = "PartialSegment"
    /\ parsed # <<>>
    /\ parsed[1].ok
    /\ text = <<>>
    /\ text' = <<PartialSegment_fmt(parsed[1].v)>>
    /\ UNCHANGED <<entity, attrs, prefixed, parsed, reparsed>>
    /\ UNCHANGED scanVars

\* PartialSegment::from_str on the serialized text
Reparse ==
    /\ text # <<>>
    /\ reparsed = <<>>
    /\ reparsed' = <<PartialSegment_from_str(text[1])>>
    /\ UNCHANGED <<entity, attrs, prefixed, parsed, text>>
    /\ UNCHANGED scanVars

NextFromStr == Parse \/ Serialize \/ Reparse

SpecFromStr == InitFromStr /\ [][NextFromStr]_vars

SameResult(r1, r2) == r1.ok = r2.ok /\ (r1.ok => r1.v = r2.v)

\* The name of an element NAME=VALUE, <<>> for an element without '='.
ElementName(el) ==
    IF Find(el, "=") = 0 THEN <<>> ELSE split_once(el, "=")[1][1]

\* The elements whose name the entity recognizes, and those without '='.
KnownOnly(e, as) ==
    SelectSeq(as, LAMBDA el :
        ElementName(el) = <<>>
        \/ Attribute_from_str(EntityAttribute(e), ElementName(el)).ok)

\* C5: an attribute whose name the entity does not recognize is ignored: the
\* attribute list parses to what it parses to without the unrecognized
\* attributes (the same entity, or the same failure for a required field
\* left unset or a bad value).
C5_UnknownAttributeIgnored ==
    (parsed # <<>> /\ ~prefixed) =>
        SameResult(parsed[1],
                   Entity_from_str(entity,
                                   Input(entity, FALSE, KnownOnly(entity, attrs))))

\* C9: a PartialSegment obtained by parsing, serialized with Display and
\* parsed again, is parsed successfully and equals the first one field for
\* field.
C9_RoundTrip ==
    reparsed # <<>> =>
        /\ reparsed[1].ok
        /\ reparsed[1].v.part_duration = parsed[1].v.part_duration
        /\ reparsed[1].v.uri = parsed[1].v.uri
        /\ reparsed[1].v.independent = parsed[1].v.independent

\* C10: PartialSegment::from_str accepts the tag line form
\* #EXT-X-PART:DURATION=<d>,URI="<s>" and yields that duration and uri.
C10_TagLineFormAccepted ==
    (/\ parsed # <<>>
     /\ entity = "PartialSegment"
     /\ prefixed
     /\ Len(attrs) = 2
     /\ ElementName(attrs[1]) = <<"DURATION">>
     /\ f32_from_str(split_once(attrs[1], "=")[1][2]).ok
     /\ ElementName(attrs[2]) = <<"URI">>)
    => /\ parsed[1].ok
       /\ parsed[1].v.part_duration = f32_from_str(split_once(attrs[1], "=")[1][2]).v
       /\ parsed[1].v.uri = split_once(attrs[2], "=")[1][2]

\* The attribute list has the form DURATION=<f>,URI="<s>" with an optional
\* INDEPENDENT=<YES|NO> after it.
ElementValue(el) == split_once(el, "=")[1][2]
ValidPartInput(as) ==
    /\ Len(as) \in {2, 3}
    /\ ElementName(as[1]) = <<"DURATION">>
    /\ f32_from_str(ElementValue(as[1])).ok
    /\ ElementName(as[2]) = <<"URI">>
    /\ Len(as) = 3 =>
           /\ ElementName(as[3]) = <<"INDEPENDENT">>
           /\ ElementValue(as[3]) \in {<<"YES">>, <<"NO">>}

\* The attributes of a serialized PartialSegment: what follows the tag
\* prefix, element by element.
Emitted(txt) == split(SubSeq(txt, 4, Len(txt)), ",")
EmittedNames(txt) == {ElementName(Emitted(txt)[i]) : i \in 1..Len(Emitted(txt))}
EmittedValue(txt, name) ==
    ElementValue(Emitted(txt)[CHOOSE i \in 1..Len(Emitted(txt)) :
                                  ElementName(Emitted(txt)[i]) = name])

RECURSIVE LastOccurrences(_)
LastOccurrences(as) ==
    IF as = <<>> THEN <<>>
    ELSE IF \/ ElementName(Head(as)) = <<>>
            \/ \E j \in 2..Len(as) : ElementName(as[j]) = ElementName(Head(as))
    THEN LastOccurrences(Tail(as))
    ELSE <<Head(as)>> \o LastOccurrences(Tail(as))

\* The list holds NAME=VALUE elements only, with distinct names.
DistinctNames(as) ==
    /\ \A i \in 1..Len(as) : ElementName(as[i]) # <<>>
    /\ \A i, j \in 1..Len(as) : i # j => ElementName(as[i]) # ElementName(as[j])

Orders(n) == {p \in [1..n -> 1..n] : \A i, j \in 1..n : i # j => p[i] # p[j]}
Permuted(as, p) == [i \in 1..Len(as) |-> as[p[i]]]

\* C20: the result of parsing an attribute list does not depend on the
\* order of its attributes: every permutation of a list of NAME=VALUE pairs
\* with distinct names fails too or gives the same entity; an element
\* without '=' is dropped and the rest is parsed; of two elements with the
\* same name the last one decides the field.
C20_OrderIndependent ==
    (parsed # <<>> /\ ~prefixed) =>
        /\ SameResult(parsed[1],
                      Entity_from_str(entity,
                                      Input(entity, FALSE, LastOccurrences(attrs))))
        /\ DistinctNames(attrs) =>
               \A p \in Orders(Len(attrs)) :
                   SameResult(parsed[1],
                              Entity_from_str(entity,
                                              Input(entity, FALSE, Permuted(attrs, p))))

\* C20 witness: a list with two durations around the URI was parsed, and
\* the part holds the second duration.
C20_Witness ==
    /\ entity = "PartialSegment"
    /\ ~prefixed
    /\ attrs = <<Attr("DURATION", <<"0.5">>), Attr("URI", Quoted("p1.mp4")),
                 Attr("DURATION", <<"6.0">>)>>
    /\ parsed # <<>>
    /\ parsed[1].ok
    /\ parsed[1].v.part_duration = 600

====
